---------------------------- MODULE Spec2Model ----------------------------
(***************************************************************************)
(* A state-machine model of aimodbot/bot.py (class AIModerator): the join  *)
(* notice handler newjoin, the message pipeline analyze_message, the       *)
(* capability check check_bot_permissions, the type filter                 *)
(* is_message_allowed and the scorer ai_analyze.                           *)
(*                                                                         *)
(* Handlers are asyncio coroutines: a handler runs without interleaving    *)
(* from one await to the next, so every action below is the code between   *)
(* two awaits together with the outcome of the awaited transport call.     *)
(* The transport (room state, classifier, media store) is the environment: *)
(* every awaited call draws its outcome from the set of outcomes the call  *)
(* can have, a raised exception included.                                  *)
(***************************************************************************)
EXTENDS Integers, Sequences, FiniteSets, TLC

(***************************************************************************)
(* Identities, rooms, levels.                                              *)
(***************************************************************************)
\* self.client.mxid
mxid == "@bot:hs"

Users == {"@admin:hs", "@bot:hs", "@user:hs"}

Rooms == {"!a:hs", "!b:hs"}

\* The power levels a room state can hold for a user, or as a threshold.
Levels == {0, 50, 100}

\* Number of join handlers that can be in flight.
MaxJoinTasks == 3

JoinTasks == 1..MaxJoinTasks

\* join_key = (evt.room_id, evt.sender)
JoinKeys == Rooms \X {"@admin:hs", "@user:hs"}

NoKey == <<"", "">>

VARIABLES
    \* ---- the live configuration object ----
    config,                 \* self.config
    \* ---- configuration snapshot taken by start() ----
    admins,                 \* self.admins
    uncensor_pl,            \* self.uncensor_pl
    enable_join_notice,     \* self.enable_join_notice
    moderate_files,         \* self.moderate_files
    ai_mod_threshold,       \* self.ai_mod_threshold
    enable_msgtype_filter,  \* self.enable_msgtype_filter
    \* ---- join notice tracking ----
    welcomed_joins,         \* self.welcomed_joins
    jpc,                    \* position of each newjoin handler
    jkey,                   \* join_key of each newjoin handler
    notices,                \* send_notice calls made, per join key
    \* ---- one analyze_message handler ----
    pc,                     \* position of the handler
    ctx,                    \* which call of check_bot_permissions is running
    evt,                    \* the message event being handled
    user_level,             \* local user_level
    level1,                 \* user_level of the first fetch (line 294)
    fetches,                \* power-level fetches of analyze_message that returned
    has_perms,              \* local has_perms
    error_msg,              \* local error_msg
    perm_details,           \* local perm_details
    attempt,                \* loop variable of ai_analyze
    responses,              \* classifier responses received by ai_analyze
    score,                  \* local score
    http_calls,             \* self.http.post calls made for the event
    downloads,              \* download_media calls made for the event
    filter_redacts,         \* client.redact calls of the filter step (line 317)
    score_redacts,          \* client.redact calls of the enforcement step (line 356)
    replies,                \* evt.reply calls (line 365), with what each says
    responds,               \* evt.respond calls (line 215)
    marked_read,            \* evt.mark_read calls (line 345)
    analyze_calls,          \* ai_analyze calls (line 346)
    checks,                 \* results (ok) of the capability checks that returned
    caught,                 \* the except clauses that ran (lines 106, 211, 359)
    exc,                    \* the exception that ended the handler, if any
    \* ---- one call of a function that awaits nothing ----
    fn_call,                \* the function called and its arguments
    fn_result               \* what it returned

configVars == <<config, admins, uncensor_pl, enable_join_notice, moderate_files,
                ai_mod_threshold, enable_msgtype_filter>>

joinVars == <<welcomed_joins, jpc, jkey, notices>>

localVars == <<ctx, evt, user_level, level1, fetches, has_perms, error_msg,
               perm_details, attempt, responses, score>>

callVars == <<http_calls, downloads, filter_redacts, score_redacts, replies,
              responds, marked_read, analyze_calls, checks, caught>>

msgVars == <<pc, localVars, callVars, exc>>

pureVars == <<fn_call, fn_result>>

vars == <<configVars, joinVars, msgVars, pureVars>>

(***************************************************************************)
(* Text.  A text is a sequence of characters (one-character strings), so   *)
(* that lower-casing and substring search are computed, not assumed.       *)
(***************************************************************************)
UpperCase == <<"A","B","C","D","E","F","G","H","I","J","K","L","M",
               "N","O","P","Q","R","S","T","U","V","W","X","Y","Z">>

LowerCase == <<"a","b","c","d","e","f","g","h","i","j","k","l","m",
               "n","o","p","q","r","s","t","u","v","w","x","y","z">>

\* str.lower() on one character
LowerChar(c) ==
    IF \E i \in 1..26 : UpperCase[i] = c
    THEN LowerCase[CHOOSE i \in 1..26 : UpperCase[i] = c]
    ELSE c

\* str.lower()
Lower(s) == [i \in 1..Len(s) |-> LowerChar(s[i])]

\* phrase in text
Contains(text, phrase) ==
    \E i \in 1..(Len(text) - Len(phrase) + 1) :
        SubSeq(text, i, i + Len(phrase) - 1) = phrase

REFUSAL_PHRASES == {
    <<"c","a","n","'","t"," ","a","s","s","i","s","t">>,
    <<"u","n","a","b","l","e"," ","t","o"," ","a","s","s","i","s","t">>,
    <<"c","a","n","'","t"," ","h","e","l","p">>,
    <<"u","n","a","b","l","e"," ","t","o"," ","h","e","l","p">>,
    <<"i","'","m"," ","u","n","a","b","l","e"," ","t","o">>,
    <<"i"," ","c","a","n","'","t">> }

\* A variant that scans the raw text, not its lower-cased form.
CaseSensitiveRefusal(resp_content) ==
    \E phrase \in REFUSAL_PHRASES : Contains(resp_content, phrase)

\* any(phrase in resp_content.lower() for phrase in self.REFUSAL_PHRASES)
IsRefusal(resp_content) ==
    \E phrase \in REFUSAL_PHRASES : Contains(Lower(resp_content), phrase)

(***************************************************************************)
(* json.loads on the classifier's answer.  Only one shape of JSON document *)
(* is in the universe of answers: "{" score analysis... "}", the score     *)
(* being one token "0".."10".  Every other text raises JSONDecodeError.    *)
(***************************************************************************)
\* all integers are on a scale between 0-10
MaxScore == 10

ScoreTokens == <<"0","1","2","3","4","5","6","7","8","9","10">>

IsScoreToken(c) == \E n \in 0..MaxScore : ScoreTokens[n + 1] = c

TokenValue(c) == CHOOSE n \in 0..MaxScore : ScoreTokens[n + 1] = c

IsJson(text) ==
    /\ Len(text) >= 3
    /\ text[1] = "{"
    /\ text[Len(text)] = "}"
    /\ IsScoreToken(text[2])

\* json.loads(resp_content): ok = FALSE stands for JSONDecodeError
JsonLoads(text) ==
    IF IsJson(text)
    THEN [ok |-> TRUE,
          value |-> [max |-> TokenValue(text[2]),
                     comment |-> "parsed comment",
                     analysis |-> SubSeq(text, 3, Len(text) - 1),
                     categories |-> "parsed categories"]]
    ELSE [ok |-> FALSE,
          value |-> [max |-> 0, comment |-> "", analysis |-> <<>>,
                     categories |-> ""]]

\* lines 140-144
RefusalAssessment(resp_content) ==
    [max |-> 10,
     comment |-> "LLM indicated content blocking",
     analysis |-> resp_content,
     categories |-> "unsafe: 10"]

\* The texts a classifier answers with.
JsonTexts == {<<"{", ScoreTokens[n + 1], "}">> : n \in 0..MaxScore}

\* A JSON document whose analysis quotes a refusal phrase.
JsonQuotingRefusal == <<"{", "0", "i"," ","c","a","n","'","t", "}">>

RefusalTexts == { <<"i"," ","c","a","n","'","t">>,
                  <<"S","o","r","r","y",",",
                    " ","I","'","m"," ","U","n","a","b","l","e"," ","T","o">> }

MalformedTexts == { <<"s","u","r","e",":", "{", "7", "}">> }

Contents == JsonTexts \cup {JsonQuotingRefusal} \cup RefusalTexts
              \cup MalformedTexts

\* What self.http.post can answer: 200 with a text, another 2xx status
\* with a text, or an error status with an error body.
HttpResponses ==
    {[status |-> 200, content |-> c] : c \in Contents}
      \cup {[status |-> 201, content |-> c] :
                c \in {<<"{", "9", "}">>} \cup MalformedTexts}
      \cup {[status |-> 500, content |-> <<"e","r","r">>]}

\* for attempt in range(max_retries)
max_retries == 3

\* The values ai_analyze returns.
NoneScore == [type |-> "None", value |-> RefusalAssessment(<<>>)]

ErrorString == [type |-> "str", value |-> RefusalAssessment(<<>>)]

Unset == [type |-> "unset", value |-> RefusalAssessment(<<>>)]

DictScore(v) == [type |-> "dict", value |-> v]

\* One round of the loop that scans for a refusal before it parses.
AttemptRefusalFirst(resp) ==
    IF resp.status # 200
    THEN [returns |-> TRUE, value |-> ErrorString]
    ELSE IF IsRefusal(resp.content)
         THEN [returns |-> TRUE,
               value |-> DictScore(RefusalAssessment(resp.content))]
         ELSE LET parsed == JsonLoads(resp.content) IN
              IF parsed.ok
              THEN [returns |-> TRUE, value |-> DictScore(parsed.value)]
              ELSE [returns |-> FALSE, value |-> NoneScore]

\* One round of the loop that retries after a status other than 200.
AttemptRetryOnStatus(resp) ==
    IF resp.status # 200
    THEN [returns |-> FALSE, value |-> NoneScore]
    ELSE LET parsed == JsonLoads(resp.content) IN
         IF parsed.ok
         THEN [returns |-> TRUE, value |-> DictScore(parsed.value)]
         ELSE IF IsRefusal(resp.content)
              THEN [returns |-> TRUE,
                    value |-> DictScore(RefusalAssessment(resp.content))]
              ELSE [returns |-> FALSE, value |-> NoneScore]

\* One round of the loop, lines 129-146: returns = FALSE when the loop
\* goes on to the next attempt.
Attempt(resp) ==
    IF resp.status # 200
    THEN [returns |-> TRUE, value |-> ErrorString]
    ELSE LET parsed == JsonLoads(resp.content) IN
         IF parsed.ok
         THEN [returns |-> TRUE, value |-> DictScore(parsed.value)]
         ELSE IF IsRefusal(resp.content)
              THEN [returns |-> TRUE,
                    value |-> DictScore(RefusalAssessment(resp.content))]
              ELSE [returns |-> FALSE, value |-> NoneScore]

\* not score
Falsy(sc) == sc.type = "None"

(***************************************************************************)
(* Messages and the type filter.                                           *)
(***************************************************************************)
MsgTypes == {"m.text", "m.notice", "m.image", "m.video", "m.file"}

\* isinstance(evt.content, MediaMessageEventContent)
IsMedia(e) == e.msgtype \in {"m.image", "m.video", "m.file"}

\* getattr(evt.content.info, "mimetype", None) finding nothing
NoMime == ""

MimeTypesOf(m) ==
    IF m = "m.image" THEN {"image/png", "image/bmp", NoMime} ELSE {NoMime}

Events ==
    UNION { {[sender |-> s, msgtype |-> m, mimetype |-> mt] :
                 s \in Users, mt \in MimeTypesOf(m)} : m \in MsgTypes }

NoEvent == [sender |-> "", msgtype |-> "", mimetype |-> NoMime]

\* line 221
default_msgtypes == {"m.text", "m.image"}

\* lines 223-225
default_mimetypes == {"image/jpeg", "image/png", "image/webp", "image/gif"}

\* self.config.get("allowed_msgtypes", default_msgtypes): the key is in
\* the configuration (do_update copies it), so the live value is read.
allowed_msgtypes == config.allowed_msgtypes

\* self.config.get("allowed_mimetypes", default_mimetypes)
allowed_mimetypes == config.allowed_mimetypes

\* A filter that rejects an image whose MIME type is not known.
MimeFailClosed(e) ==
    /\ e.msgtype \in allowed_msgtypes
    /\ e.msgtype = "m.image" => e.mimetype \in allowed_mimetypes

is_message_allowed(e) ==
    IF e.msgtype \notin allowed_msgtypes
    THEN FALSE
    ELSE IF /\ e.msgtype = "m.image"
            /\ IsMedia(e)
            /\ e.mimetype # NoMime
            /\ e.mimetype \notin allowed_mimetypes
         THEN FALSE
         ELSE TRUE

(***************************************************************************)
(* Room power levels and the capability check.                             *)
(***************************************************************************)
\* The m.room.power_levels contents the room state can hold.
PowerLevels ==
    UNION { [users : [D -> Levels], users_default : {0, 50},
             redact : {50, 100}, state_default : {50}] : D \in SUBSET Users }

\* power_levels.get_user_level(user) / power_levels.users.get(user, default)
get_user_level(power_levels, user) ==
    IF user \in DOMAIN power_levels.users
    THEN power_levels.users[user]
    ELSE power_levels.users_default

\* line 197: basic moderator level
ModeratorLevel == 50

Range(seq) == {seq[i] : i \in 1..Len(seq)}

NoDetails == [perm \in {} |-> [has_permission |-> FALSE,
                               required_level |-> 0, bot_level |-> 0]]

\* A check that grants a capability only above its threshold.
CheckPermissionsAbove(power_levels, required_permissions) ==
    LET bot_level == get_user_level(power_levels, mxid)
        permission_requirements ==
            [perm \in {"redact", "state"} |->
                IF perm = "redact" THEN power_levels.redact
                                   ELSE power_levels.state_default]
        permission_status ==
            [perm \in Range(required_permissions) |->
                [has_permission |-> bot_level > permission_requirements[perm],
                 required_level |-> permission_requirements[perm],
                 bot_level |-> bot_level]]
    IN  [ok |-> /\ \A perm \in DOMAIN permission_status :
                       permission_status[perm].has_permission
                /\ required_permissions = <<>> => bot_level > ModeratorLevel,
         msg |-> "", details |-> permission_status]

\* lines 175-209, once both state lookups have returned
CheckPermissions(power_levels, required_permissions) ==
    LET bot_level == get_user_level(power_levels, mxid)
        permission_requirements ==
            [perm \in {"redact", "state"} |->
                IF perm = "redact" THEN power_levels.redact
                                   ELSE power_levels.state_default]
        permission_status ==
            [perm \in Range(required_permissions)
                         \cap DOMAIN permission_requirements |->
                [has_permission |-> bot_level >= permission_requirements[perm],
                 required_level |-> permission_requirements[perm],
                 bot_level |-> bot_level]]
        missing_permissions ==
            {perm \in DOMAIN permission_status :
                ~ permission_status[perm].has_permission}
    IN  IF required_permissions = <<>>
        THEN IF bot_level < ModeratorLevel
             THEN [ok |-> FALSE, msg |-> "insufficient power level",
                   details |-> permission_status]
             ELSE [ok |-> TRUE, msg |-> "", details |-> permission_status]
        ELSE IF missing_permissions # {}
             THEN [ok |-> FALSE, msg |-> "missing required permissions",
                   details |-> permission_status]
             ELSE [ok |-> TRUE, msg |-> "", details |-> permission_status]

\* lines 170-171 and 211-216: what the check returns when a lookup failed
CheckFailed(msg) == [ok |-> FALSE, msg |-> msg, details |-> NoDetails]

(***************************************************************************)
(* newjoin (lines 268-286).                                                *)
(***************************************************************************)
\* A variant that tests the key and never records it.
TestWithoutAdd(t, k) ==
    IF k \in welcomed_joins
    THEN /\ jpc' = [jpc EXCEPT ![t] = "done"]
         /\ UNCHANGED <<welcomed_joins, notices>>
    ELSE /\ welcomed_joins' = welcomed_joins
         /\ IF enable_join_notice
            THEN /\ notices' = [notices EXCEPT ![k] = @ + 1]
                 /\ jpc' = [jpc EXCEPT ![t] = "send_notice"]
            ELSE /\ jpc' = [jpc EXCEPT ![t] = "done"]
                 /\ UNCHANGED notices

\* lines 272-286 up to the await: the membership test, the insertion and
\* the call of send_notice, with no await between them.
TestAndAdd(t, k) ==
    IF k \in welcomed_joins
    THEN /\ jpc' = [jpc EXCEPT ![t] = "done"]
         /\ UNCHANGED <<welcomed_joins, notices>>
    ELSE /\ welcomed_joins' = welcomed_joins \cup {k}
         /\ IF enable_join_notice
            THEN /\ notices' = [notices EXCEPT ![k] = @ + 1]
                 /\ jpc' = [jpc EXCEPT ![t] = "send_notice"]
            ELSE /\ jpc' = [jpc EXCEPT ![t] = "done"]
                 /\ UNCHANGED notices

\* A join event is dispatched to handler t, which runs to its first await.
newjoin(t) ==
    /\ jpc[t] = "idle"
    /\ \E k \in JoinKeys :
          /\ jkey' = [jkey EXCEPT ![t] = k]
          /\ TestAndAdd(t, k)
    /\ UNCHANGED <<configVars, msgVars, pureVars>>

\* await self.client.send_notice(...) returns or raises; either way the
\* handler ends and the key stays in welcomed_joins.
SendNoticeReturns(t) ==
    /\ jpc[t] = "send_notice"
    /\ \E outcome \in {"done", "raised"} :
          jpc' = [jpc EXCEPT ![t] = outcome]
    /\ UNCHANGED <<welcomed_joins, jkey, notices>>
    /\ UNCHANGED <<configVars, msgVars, pureVars>>

\* The handler's task is over; the dispatcher can start another one.
JoinTaskEnds(t) ==
    /\ jpc[t] \in {"done", "raised"}
    /\ jpc' = [jpc EXCEPT ![t] = "idle"]
    /\ jkey' = [jkey EXCEPT ![t] = NoKey]
    /\ UNCHANGED <<welcomed_joins, notices>>
    /\ UNCHANGED <<configVars, msgVars, pureVars>>

(***************************************************************************)
(* analyze_message (lines 288-367), with check_bot_permissions and         *)
(* ai_analyze running inside it.                                           *)
(***************************************************************************)
\* The handler ended: it returned, or it raised.
Ended == pc \in {"done", "raised"}

NoException == [type |-> "none", line |-> 0]

\* The handler ends with an exception, raised on the given line, that
\* propagates to the event loop.
Raise(type, line) ==
    /\ pc' = "raised"
    /\ exc' = [type |-> type, line |-> line]

\* evt.sender in self.admins or user_level >= self.uncensor_pl
\*   or evt.sender == self.client.mxid
Privileged(sender, level) ==
    \/ sender \in admins
    \/ level >= uncensor_pl
    \/ sender = mxid

\* The locals and the call counts of a handler that has not run yet.
FreshHandler ==
    /\ ctx' = "none"
    /\ user_level' = 0
    /\ level1' = 0
    /\ fetches' = 0
    /\ has_perms' = FALSE
    /\ error_msg' = ""
    /\ perm_details' = NoDetails
    /\ attempt' = 0
    /\ responses' = <<>>
    /\ score' = Unset
    /\ http_calls' = 0
    /\ downloads' = 0
    /\ filter_redacts' = 0
    /\ score_redacts' = 0
    /\ replies' = <<>>
    /\ responds' = 0
    /\ marked_read' = 0
    /\ analyze_calls' = 0
    /\ checks' = <<>>
    /\ caught' = {}
    /\ exc' = NoException

\* A message event is dispatched to the handler.
Dispatch ==
    /\ pc = "idle"
    /\ \E e \in Events : evt' = e
    /\ pc' = "fetch1"
    /\ FreshHandler
    /\ UNCHANGED <<configVars, joinVars, pureVars>>

\* The handler's task is over; the next message event can be dispatched.
TaskEnds ==
    /\ Ended
    /\ pc' = "idle"
    /\ evt' = NoEvent
    /\ FreshHandler
    /\ UNCHANGED <<configVars, joinVars, pureVars>>

\* A handler that goes on to score files whatever moderate_files says.
FilesAlwaysScored == "fetch2"

\* lines 323-325, and the call of get_state_event on line 327
AfterFilter ==
    IF IsMedia(evt) /\ ~ moderate_files THEN "done" ELSE "fetch2"

\* A filter decision without the bypass for privileged senders.
NoBypass(level) ==
    IF enable_msgtype_filter /\ ~ is_message_allowed(evt)
    THEN "perm_member"
    ELSE AfterFilter

\* A filter decision that never filters.
NeverFilter(level) == AfterFilter

\* lines 297-325: where the handler awaits next once the first fetch gave
\* level.
FilterDecision(level) ==
    IF Privileged(evt.sender, level)
    THEN AfterFilter
    ELSE IF enable_msgtype_filter /\ ~ is_message_allowed(evt)
         THEN "perm_member"
         ELSE AfterFilter

\* lines 291-325: the first power-level fetch returns or raises.
Fetch1 ==
    /\ pc = "fetch1"
    /\ \/ /\ Raise("TransportError", 291)
          /\ UNCHANGED <<localVars>>
       \/ \E power_levels \in PowerLevels :
            LET level == get_user_level(power_levels, evt.sender) IN
            /\ user_level' = level
            /\ level1' = level
            /\ fetches' = 1
            /\ pc' = FilterDecision(level)
            /\ ctx' = IF FilterDecision(level) = "perm_member"
                      THEN "filter" ELSE ctx
            /\ UNCHANGED <<evt, has_perms, error_msg, perm_details, attempt,
                           responses, score, exc>>
    /\ UNCHANGED <<callVars, configVars, joinVars, pureVars>>

\* A scoring decision that looks at the admin list and the bot only.
EligibleIgnoringLevel(level) ==
    /\ evt.sender \notin admins
    /\ evt.sender # mxid

\* lines 334-336
ScoringEligible(level) ==
    /\ evt.sender \notin admins
    /\ level < uncensor_pl
    /\ evt.sender # mxid

\* lines 327-342: the second power-level fetch returns or raises.
Fetch2 ==
    /\ pc = "fetch2"
    /\ \/ /\ Raise("TransportError", 327)
          /\ UNCHANGED <<localVars>>
       \/ \E power_levels \in PowerLevels :
            LET level == get_user_level(power_levels, evt.sender) IN
            /\ user_level' = level
            /\ fetches' = 2
            /\ IF ScoringEligible(level)
               THEN pc' = "perm_member" /\ ctx' = "score"
               ELSE pc' = "done" /\ ctx' = ctx
            /\ UNCHANGED <<evt, level1, has_perms, error_msg, perm_details,
                           attempt, responses, score, exc>>
    /\ UNCHANGED <<callVars, configVars, joinVars, pureVars>>

\* A filter step without its return: a refused deletion goes on to the
\* scoring steps.
CheckReturnsFallThrough(r) ==
    /\ has_perms' = r.ok
    /\ error_msg' = r.msg
    /\ perm_details' = r.details
    /\ checks' = Append(checks, r.ok)
    /\ pc' = IF ctx = "filter"
             THEN IF r.ok THEN "filter_redact" ELSE AfterFilter
             ELSE "mark_read"
    /\ UNCHANGED <<ctx, evt, user_level, level1, fetches, attempt, responses,
                   score, exc>>

\* check_bot_permissions returns r to analyze_message: lines 303-321 in
\* the filter step, lines 338-345 in the scoring step.
CheckReturns(r) ==
    /\ has_perms' = r.ok
    /\ error_msg' = r.msg
    /\ perm_details' = r.details
    /\ checks' = Append(checks, r.ok)
    /\ pc' = IF ctx = "filter"
             THEN IF r.ok THEN "filter_redact" ELSE "done"
             ELSE "mark_read"
    /\ UNCHANGED <<ctx, evt, user_level, level1, fetches, attempt, responses,
                   score, exc>>

\* lines 211-214: the except clause of the check, up to its await.
CheckCatches ==
    /\ caught' = caught \cup {"permissions"}
    /\ pc' = "perm_respond"
    /\ UNCHANGED <<localVars, checks, exc>>

\* lines 168-171: the membership lookup returns, raises MNotFound or
\* raises something else.
PermMember ==
    /\ pc = "perm_member"
    /\ \/ /\ pc' = "perm_levels"
          /\ UNCHANGED <<localVars, checks, caught, exc>>
       \/ /\ CheckReturns(CheckFailed("Bot is not a member of this room"))
          /\ UNCHANGED caught
       \/ CheckCatches
    /\ UNCHANGED <<http_calls, downloads, filter_redacts, score_redacts,
                   replies, responds, marked_read, analyze_calls>>
    /\ UNCHANGED <<configVars, joinVars, pureVars>>

\* lines 174-209: the power-level lookup of the check returns or raises.
PermLevels ==
    /\ pc = "perm_levels"
    /\ \/ /\ \E power_levels \in PowerLevels :
               CheckReturns(CheckPermissions(power_levels, <<"redact">>))
          /\ UNCHANGED caught
       \/ CheckCatches
    /\ UNCHANGED <<http_calls, downloads, filter_redacts, score_redacts,
                   replies, responds, marked_read, analyze_calls>>
    /\ UNCHANGED <<configVars, joinVars, pureVars>>

\* lines 214-216: evt is given, so the error is sent to the room; respond
\* returns or raises, and nothing catches what it raises.
PermRespond ==
    /\ pc = "perm_respond"
    /\ responds' = responds + 1
    /\ \/ CheckReturns(CheckFailed("Failed to check bot permissions"))
       \/ /\ Raise("TransportError", 215)
          /\ UNCHANGED <<localVars, checks>>
    /\ UNCHANGED <<http_calls, downloads, filter_redacts, score_redacts,
                   replies, marked_read, analyze_calls, caught>>
    /\ UNCHANGED <<configVars, joinVars, pureVars>>

\* lines 317-321: the redaction of a disallowed message returns or raises.
FilterRedact ==
    /\ pc = "filter_redact"
    /\ filter_redacts' = filter_redacts + 1
    /\ \/ pc' = "done" /\ exc' = exc
       \/ Raise("TransportError", 317)
    /\ UNCHANGED <<localVars>>
    /\ UNCHANGED <<http_calls, downloads, score_redacts, replies, responds,
                   marked_read, analyze_calls, checks, caught>>
    /\ UNCHANGED <<configVars, joinVars, pureVars>>

\* lines 82-110 of ai_analyze: where it first awaits.
AnalyzeStart ==
    IF IsMedia(evt) /\ ~ config.moderate_files
    THEN "done"
    ELSE IF evt.msgtype \in {"m.image", "m.video", "m.sticker"}
         THEN "download"
         ELSE "post"

\* lines 345-346 and lines 82-110: mark_read returns or raises, then
\* ai_analyze is called and runs to its first await.
MarkRead ==
    /\ pc = "mark_read"
    /\ marked_read' = marked_read + 1
    /\ \/ /\ analyze_calls' = analyze_calls + 1
          /\ pc' = AnalyzeStart
          /\ score' = IF AnalyzeStart = "done" THEN NoneScore ELSE score
          /\ exc' = exc
       \/ /\ Raise("TransportError", 345)
          /\ UNCHANGED <<score, analyze_calls>>
    /\ UNCHANGED <<ctx, evt, user_level, level1, fetches, has_perms,
                   error_msg, perm_details, attempt, responses>>
    /\ UNCHANGED <<http_calls, downloads, filter_redacts, score_redacts,
                   replies, responds, checks, caught>>
    /\ UNCHANGED <<configVars, joinVars, pureVars>>

\* lines 88-108: download_media returns or raises; the exception is caught
\* and ai_analyze returns None, which ends the handler on line 348.
Download ==
    /\ pc = "download"
    /\ downloads' = downloads + 1
    /\ \/ pc' = "post" /\ UNCHANGED <<score, caught>>
       \/ /\ caught' = caught \cup {"media"}
          /\ pc' = "done"
          /\ score' = NoneScore
    /\ UNCHANGED <<ctx, evt, user_level, level1, fetches, has_perms,
                   error_msg, perm_details, attempt, responses, exc>>
    /\ UNCHANGED <<http_calls, filter_redacts, score_redacts, replies,
                   responds, marked_read, analyze_calls, checks>>
    /\ UNCHANGED <<configVars, joinVars, pureVars>>

\* line 353
Flagged(assessment) == assessment.max >= ai_mod_threshold

\* An enforcement step that deletes whatever the capability check said.
EnforceUnchecked(sc) ==
    IF Falsy(sc)
    THEN pc' = "done" /\ exc' = exc
    ELSE IF sc.type = "str"
         THEN Raise("AttributeError", 350)
         ELSE IF Flagged(sc.value)
              THEN pc' = "redact" /\ exc' = exc
              ELSE pc' = "done" /\ exc' = exc

\* lines 347-367 up to the next await: ai_analyze returned sc.
Enforce(sc) ==
    IF Falsy(sc)
    THEN pc' = "done" /\ exc' = exc
    ELSE IF sc.type = "str"
         THEN Raise("AttributeError", 350)
         ELSE IF Flagged(sc.value)
              THEN IF has_perms
                   THEN pc' = "redact" /\ exc' = exc
                   ELSE IF "redact" \in DOMAIN perm_details
                        THEN pc' = "reply" /\ exc' = exc
                        ELSE Raise("KeyError", 363)
              ELSE pc' = "done" /\ exc' = exc

\* A loop that runs one round more than max_retries.
OneRoundMore(a) == a + 1 <= max_retries

\* for attempt in range(max_retries): there is a round after round a.
MoreRounds(a) == a + 1 < max_retries

\* lines 125-149, one round: self.http.post answers or raises.
Post ==
    /\ pc = "post"
    /\ http_calls' = http_calls + 1
    /\ \/ /\ Raise("ClientError", 126)
          /\ UNCHANGED <<attempt, responses, score>>
       \/ \E resp \in HttpResponses :
            LET round == Attempt(resp) IN
            /\ responses' = Append(responses, resp)
            /\ IF round.returns
               THEN /\ score' = round.value
                    /\ attempt' = attempt
                    /\ Enforce(round.value)
               ELSE IF MoreRounds(attempt)
                    THEN /\ attempt' = attempt + 1
                         /\ pc' = "post"
                         /\ UNCHANGED <<score, exc>>
                    ELSE /\ score' = NoneScore
                         /\ attempt' = attempt
                         /\ Enforce(NoneScore)
    /\ UNCHANGED <<ctx, evt, user_level, level1, fetches, has_perms,
                   error_msg, perm_details>>
    /\ UNCHANGED <<downloads, filter_redacts, score_redacts, replies,
                   responds, marked_read, analyze_calls, checks, caught>>
    /\ UNCHANGED <<configVars, joinVars, pureVars>>

\* lines 355-360: the redaction returns or raises; the exception is caught
\* and logged.
Redact ==
    /\ pc = "redact"
    /\ score_redacts' = score_redacts + 1
    /\ pc' = "done"
    /\ \/ caught' = caught
       \/ caught' = caught \cup {"redact"}
    /\ UNCHANGED <<localVars, exc>>
    /\ UNCHANGED <<http_calls, downloads, filter_redacts, replies, responds,
                   marked_read, analyze_calls, checks>>
    /\ UNCHANGED <<configVars, joinVars, pureVars>>

\* f"I would have redacted this message ({score['comment']}), but I need a
\* power level of {redact_pl} or higher to do so (currently {bot_pl})."
ReplyText ==
    [comment |-> score.value.comment,
     redact_pl |-> perm_details["redact"].required_level,
     bot_pl |-> perm_details["redact"].bot_level]

\* lines 362-367: the reply is sent, or evt.reply raises.
Reply ==
    /\ pc = "reply"
    /\ replies' = Append(replies, ReplyText)
    /\ \/ pc' = "done" /\ exc' = exc
       \/ Raise("TransportError", 365)
    /\ UNCHANGED <<localVars>>
    /\ UNCHANGED <<http_calls, downloads, filter_redacts, score_redacts,
                   responds, marked_read, analyze_calls, checks, caught>>
    /\ UNCHANGED <<configVars, joinVars, pureVars>>

(***************************************************************************)
(* Specifications.                                                         *)
(***************************************************************************)
\* The admin lists a configuration holds: self.config["admins"] or [].
\* With an empty list "@admin:hs" is handled exactly as "@user:hs" is.
AdminLists == {{"@admin:hs"}}

\* self.config["uncensor_pl"] or 0
UncensorLevels == {0, 50}

\* start() (lines 246-266); no handler has run.
HandlerInit ==
    /\ pc = "idle"
    /\ ctx = "none"
    /\ evt = NoEvent
    /\ user_level = 0
    /\ level1 = 0
    /\ fetches = 0
    /\ has_perms = FALSE
    /\ error_msg = ""
    /\ perm_details = NoDetails
    /\ attempt = 0
    /\ responses = <<>>
    /\ score = Unset
    /\ http_calls = 0
    /\ downloads = 0
    /\ filter_redacts = 0
    /\ score_redacts = 0
    /\ replies = <<>>
    /\ responds = 0
    /\ marked_read = 0
    /\ analyze_calls = 0
    /\ checks = <<>>
    /\ caught = {}
    /\ exc = NoException

JoinInit ==
    /\ welcomed_joins = {}
    /\ jpc = [t \in JoinTasks |-> "idle"]
    /\ jkey = [t \in JoinTasks |-> NoKey]
    /\ notices = [k \in JoinKeys |-> 0]

\* No function has been called on its own.
NoCall == [fn |-> "none"]

NotReturned == [returned |-> FALSE]

Returned(value) == [returned |-> TRUE, value |-> value]

PureInit ==
    /\ fn_call = NoCall
    /\ fn_result = NotReturned

\* The configurations load_and_update() can have loaded (lines 17-30),
\* with the default allow-lists.
Configs ==
    [admins : AdminLists, uncensor_pl : UncensorLevels,
     ai_mod_threshold : 0..MaxScore, moderate_files : BOOLEAN,
     allowed_msgtypes : {default_msgtypes},
     allowed_mimetypes : {default_mimetypes}]

\* lines 252-258: the snapshot start() takes of the configuration.
Snapshot ==
    /\ admins = config.admins
    /\ uncensor_pl = config.uncensor_pl
    /\ moderate_files = config.moderate_files
    /\ ai_mod_threshold = config.ai_mod_threshold

\* The message pipeline under every configuration.
Init ==
    /\ config \in Configs
    /\ Snapshot
    /\ enable_join_notice = TRUE
    /\ enable_msgtype_filter \in BOOLEAN
    /\ JoinInit
    /\ HandlerInit
    /\ PureInit

Next ==
    \/ Dispatch
    \/ Fetch1
    \/ PermMember
    \/ PermLevels
    \/ PermRespond
    \/ FilterRedact
    \/ Fetch2
    \/ MarkRead
    \/ Download
    \/ Post
    \/ Redact
    \/ Reply
    \/ TaskEnds

Spec == Init /\ [][Next]_vars

\* The join handlers under every join-notice configuration.
JoinSpecInit ==
    /\ config = [admins |-> {}, uncensor_pl |-> 0, ai_mod_threshold |-> 0,
                 moderate_files |-> FALSE,
                 allowed_msgtypes |-> default_msgtypes,
                 allowed_mimetypes |-> default_mimetypes]
    /\ Snapshot
    /\ enable_join_notice \in BOOLEAN
    /\ enable_msgtype_filter = FALSE
    /\ JoinInit
    /\ HandlerInit
    /\ PureInit

JoinNext ==
    \E t \in JoinTasks :
        \/ newjoin(t)
        \/ SendNoticeReturns(t)
        \/ JoinTaskEnds(t)

JoinSpec == JoinSpecInit /\ [][JoinNext]_vars


(***************************************************************************)
(* The two functions that await no scheduling decision, each called once   *)
(* on every input: the capability check after both of its lookups have     *)
(* returned, and the type filter under every allow-list.                   *)
(***************************************************************************)
\* required_permissions as the callers and the signature allow it (line 155)
PermissionRequests ==
    {<<>>, <<"redact">>, <<"state">>, <<"redact", "state">>,
     <<"state", "redact">>}

\* allowed_msgtypes as a configuration can set it
MsgTypeLists ==
    {default_msgtypes, {}, {"m.text"}, {"m.image", "m.video"}, MsgTypes}

\* allowed_mimetypes as a configuration can set it
MimeTypeLists == {default_mimetypes, {}, {"image/bmp"}}

FilterConfigs ==
    [admins : AdminLists, uncensor_pl : {0}, ai_mod_threshold : {0},
     moderate_files : {FALSE}, allowed_msgtypes : MsgTypeLists,
     allowed_mimetypes : MimeTypeLists]

PureCalls ==
    [fn : {"check_bot_permissions"}, power_levels : PowerLevels,
     required_permissions : PermissionRequests]
    \cup [fn : {"is_message_allowed"}, evt : Events]

\* check_bot_permissions(room_id, evt, required_permissions), lines 174-209
CallCheckPermissions ==
    /\ fn_call.fn = "check_bot_permissions"
    /\ ~ fn_result.returned
    /\ fn_result' = Returned(CheckPermissions(fn_call.power_levels,
                                              fn_call.required_permissions))
    /\ UNCHANGED <<fn_call, configVars, joinVars, msgVars>>

\* is_message_allowed(evt), lines 218-244
CallIsMessageAllowed ==
    /\ fn_call.fn = "is_message_allowed"
    /\ ~ fn_result.returned
    /\ fn_result' = Returned(is_message_allowed(fn_call.evt))
    /\ UNCHANGED <<fn_call, configVars, joinVars, msgVars>>

PureSpecInit ==
    /\ config \in FilterConfigs
    /\ Snapshot
    /\ enable_join_notice = FALSE
    /\ enable_msgtype_filter = TRUE
    /\ JoinInit
    /\ HandlerInit
    /\ fn_call \in PureCalls
    /\ fn_result = NotReturned

PureNext == CallCheckPermissions \/ CallIsMessageAllowed

PureSpec == PureSpecInit /\ [][PureNext]_vars

(***************************************************************************)
(* The message pipeline of a plugin whose configuration is reloaded while  *)
(* it runs.  A reload runs load_and_update() on self.config again; start() *)
(* is not run again, so the fields it assigned keep their values.          *)
(***************************************************************************)
\* The configurations a reload can bring: the sender of the messages may
\* have been made an admin, and the two thresholds may have been raised.
ReloadedConfigs ==
    [admins : {{"@admin:hs"}, {"@admin:hs", "@user:hs"}},
     uncensor_pl : {50, 100}, ai_mod_threshold : {5, 10},
     moderate_files : {TRUE},
     allowed_msgtypes : {default_msgtypes},
     allowed_mimetypes : {default_mimetypes}]

\* lines 17-30, between two message events.
Reload ==
    /\ pc = "idle"
    /\ \E c \in ReloadedConfigs : c # config /\ config' = c
    /\ UNCHANGED <<admins, uncensor_pl, enable_join_notice, moderate_files,
                   ai_mod_threshold, enable_msgtype_filter>>
    /\ UNCHANGED <<joinVars, msgVars, pureVars>>

ReloadInit ==
    /\ config = [admins |-> {"@admin:hs"}, uncensor_pl |-> 50,
                 ai_mod_threshold |-> 5, moderate_files |-> TRUE,
                 allowed_msgtypes |-> default_msgtypes,
                 allowed_mimetypes |-> default_mimetypes]
    /\ Snapshot
    /\ enable_join_notice = TRUE
    /\ enable_msgtype_filter \in BOOLEAN
    /\ JoinInit
    /\ HandlerInit
    /\ PureInit

ReloadNext == Next \/ Reload

ReloadSpec == ReloadInit /\ [][ReloadNext]_vars
(***************************************************************************)
(* Claims.                                                                 *)
(***************************************************************************)

\* C1: for every (room, user) pair, under any number of join events and any
\* interleaving of the join handlers at their awaits, send_notice is called
\* at most once for the pair, and at most one handler at a time is past the
\* membership test with the notice still in flight.
C1_AtMostOneNotice ==
    \A k \in JoinKeys :
        /\ notices[k] <= 1
        /\ Cardinality({t \in JoinTasks :
                           jkey[t] = k /\ jpc[t] = "send_notice"}) <= 1
        /\ notices[k] = 1 => k \in welcomed_joins

\* C1 witness: two handlers ran for one pair while the first was still
\* awaiting send_notice; the second returned without sending.
C1_Witness ==
    \E k \in JoinKeys : \E t1, t2 \in JoinTasks :
        /\ t1 # t2
        /\ jkey[t1] = k /\ jpc[t1] = "send_notice"
        /\ jkey[t2] = k /\ jpc[t2] = "done"
        /\ notices[k] = 1

\* C2: for a message whose sender is an admin, or the bot itself, or whose
\* level at the second power-level fetch is at least uncensor_pl, the
\* scorer is never invoked: no ai_analyze call and no classifier call.
C2_PrivilegedNeverScored ==
    ( /\ evt # NoEvent
      /\ \/ evt.sender \in admins
         \/ evt.sender = mxid
         \/ fetches = 2 /\ user_level >= uncensor_pl )
    => (analyze_calls = 0 /\ http_calls = 0 /\ downloads = 0)

\* C2 witness: an ordinary user who was below uncensor_pl at the first
\* fetch and at or above it at the second; the handler returned unscored.
C2_Witness ==
    /\ pc = "done"
    /\ evt.sender = "@user:hs"
    /\ fetches = 2
    /\ level1 < uncensor_pl
    /\ user_level >= uncensor_pl
    /\ analyze_calls = 0
    /\ http_calls = 0

\* C3: for a message whose sender is an admin, the bot itself, or at or
\* above uncensor_pl at the first power-level fetch, the filter step makes
\* no redact call, whatever the filter setting and the message type.
C3_BypassBeforeFilter ==
    (fetches >= 1 /\ Privileged(evt.sender, level1))
    => (filter_redacts = 0 /\ pc # "filter_redact")

\* C3 witness: an admin's image/bmp with the filter enabled was handled to
\* the end and not deleted.
C3_Witness ==
    /\ pc = "done"
    /\ evt.sender \in admins
    /\ enable_msgtype_filter
    /\ evt.msgtype = "m.image"
    /\ evt.mimetype = "image/bmp"
    /\ ~ is_message_allowed(evt)
    /\ fetches >= 1
    /\ filter_redacts = 0

\* ai_analyze was called and ended in a failure: an error string for a
\* non-2xx status, None after max_retries unparseable answers, or None
\* after a failed media download.
ScorerFailed ==
    /\ analyze_calls = 1
    /\ \/ /\ score.type = "str"
          /\ responses[Len(responses)].status \notin 200..299
       \/ score.type = "None" /\ Len(responses) = max_retries
       \/ score.type = "None" /\ "media" \in caught

\* C4: whenever the scorer ends in a failure (non-2xx status, three
\* unparseable answers with no refusal phrase, a media download failure),
\* the handler returns without raising, deletes nothing and sends no reply.
C4_ScoringFailureTakesNoAction ==
    (Ended /\ ScorerFailed)
    => (pc = "done" /\ score_redacts = 0 /\ filter_redacts = 0
          /\ replies = <<>>)

\* C5: for a scored message whose capability check returned ok = FALSE (for
\* any reason) and whose assessment is at or above the threshold, the
\* handler sends exactly one reply, which carries the required level and
\* the bot's level, and makes no redact call.
C5_UnenforceableIsReplied ==
    (Ended /\ score.type = "dict" /\ ~ has_perms /\ Flagged(score.value))
    => ( /\ Len(replies) = 1
         /\ "redact" \in DOMAIN perm_details
         /\ replies[1].redact_pl = perm_details["redact"].required_level
         /\ replies[1].bot_pl = perm_details["redact"].bot_level
         /\ score_redacts = 0
         /\ filter_redacts = 0 )

\* C6: for a scored message with an assessment, an enforcement action (a
\* redact call when redact is granted, a reply otherwise) is taken if and
\* only if assessment.max >= threshold, for all values 0..10 of both.
C6_InclusiveBoundary ==
    (Ended /\ score.type = "dict")
    => IF score.value.max >= ai_mod_threshold
       THEN IF has_perms
            THEN score_redacts = 1 /\ replies = <<>>
            ELSE score_redacts = 0 /\ Len(replies) = 1
       ELSE score_redacts = 0 /\ replies = <<>>

\* The boundary of C6 wherever the capability check returned its details:
\* the one case left out is the KeyError of line 363.
EnforcementBoundary ==
    (Ended /\ score.type = "dict" /\ exc.line # 363)
    => IF score.value.max >= ai_mod_threshold
       THEN IF has_perms
            THEN score_redacts = 1 /\ replies = <<>>
            ELSE score_redacts = 0 /\ Len(replies) = 1
       ELSE score_redacts = 0 /\ replies = <<>>

C9_ErrorStatusIsTerminal ==
    LET n == Len(responses) IN
    (n >= 1 /\ responses[n].status \notin 200..299)
    => ( /\ score.type = "str"
         /\ http_calls = n
         /\ pc # "post"
         /\ \A i \in 1..(n - 1) : responses[i].status \in 200..299 )

\* C9 witness: a first answer with status 500 gave the error string after
\* one classifier call.
C9_Witness ==
    /\ Len(responses) = 1
    /\ responses[1].status = 500
    /\ score.type = "str"
    /\ http_calls = 1

\* C10: whatever the transport calls of a capability check do (membership
\* not found, a lookup failing, the error report failing), the check
\* returns ok = FALSE with empty details instead of raising, and the
\* handler does not end with an exception because of the failed check.
C10_CheckNeverAborts ==
    /\ pc = "raised" => exc.line \notin {215, 363}
    /\ error_msg \in {"Bot is not a member of this room",
                      "Failed to check bot permissions"}
         => (~ has_perms /\ perm_details = NoDetails)


(***************************************************************************)
(* C11  The capability check, once its lookups have succeeded: for a       *)
(* non-empty request drawn from redact and state it reports ok exactly     *)
(* when the moderator's level (the explicit entry, else the room default)  *)
(* is at least the threshold of every requested capability, and the        *)
(* details hold, for each requested capability and no other, the granted   *)
(* flag, the required level and the actual level; for an empty request it  *)
(* reports ok exactly when the level is at least 50.                       *)
(***************************************************************************)
C11_Level(pl) ==
    IF mxid \in DOMAIN pl.users THEN pl.users[mxid] ELSE pl.users_default

C11_Threshold(pl, cap) ==
    IF cap = "redact" THEN pl.redact ELSE pl.state_default

\* C11: ok, and the details of each requested capability, are what the
\* moderator's level and the thresholds of the room make them.
C11_CheckDecision ==
    (fn_call.fn = "check_bot_permissions" /\ fn_result.returned) =>
        LET pl == fn_call.power_levels
            requested == {fn_call.required_permissions[i] :
                            i \in 1..Len(fn_call.required_permissions)}
        IN  IF requested = {}
            THEN fn_result.value.ok <=> (C11_Level(pl) >= 50)
            ELSE /\ fn_result.value.ok <=>
                        \A cap \in requested :
                            C11_Level(pl) >= C11_Threshold(pl, cap)
                 /\ DOMAIN fn_result.value.details = requested
                 /\ \A cap \in requested :
                        fn_result.value.details[cap] =
                            [has_permission |->
                                 C11_Level(pl) >= C11_Threshold(pl, cap),
                             required_level |-> C11_Threshold(pl, cap),
                             bot_level |-> C11_Level(pl)]

\* Both capabilities are asked for and the moderator sits exactly on the
\* redaction threshold, with no explicit entry of its own.
C11_Witness ==
    /\ fn_call.fn = "check_bot_permissions"
    /\ fn_result.returned
    /\ fn_call.required_permissions = <<"redact", "state">>
    /\ mxid \notin DOMAIN fn_call.power_levels.users
    /\ fn_call.power_levels.users_default = 50
    /\ fn_call.power_levels.redact = 50
    /\ fn_result.value.ok

(***************************************************************************)
(* C12  The type filter is a function of the message and the two           *)
(* allow-lists: it allows a message exactly when its kind is in the kind   *)
(* allow-list and, for an image, its MIME type is absent or in the MIME    *)
(* allow-list.  Under the default lists a video is refused and a PNG       *)
(* image is allowed.                                                       *)
(***************************************************************************)
C12_FilterDecision ==
    (fn_call.fn = "is_message_allowed" /\ fn_result.returned) =>
        LET kind == fn_call.evt.msgtype
            mime == fn_call.evt.mimetype
        IN  /\ fn_result.value <=>
                  /\ kind \in config.allowed_msgtypes
                  /\ kind = "m.image" =>
                        \/ mime = ""
                        \/ mime \in config.allowed_mimetypes
            /\ ( /\ config.allowed_msgtypes = {"m.text", "m.image"}
                 /\ config.allowed_mimetypes =
                        {"image/jpeg", "image/png", "image/webp", "image/gif"} )
               => /\ kind = "m.video" => ~ fn_result.value
                  /\ (kind = "m.image" /\ mime = "image/png")
                        => fn_result.value

\* An image that carries no MIME type has been allowed under the default
\* lists.
C12_Witness ==
    /\ fn_call.fn = "is_message_allowed"
    /\ fn_result.returned
    /\ fn_call.evt.msgtype = "m.image"
    /\ fn_call.evt.mimetype = ""
    /\ config.allowed_msgtypes = {"m.text", "m.image"}
    /\ fn_result.value

(***************************************************************************)
(* C13  A message that fails the type filter, from a sender who is not     *)
(* privileged at the first fetch and with filtering enabled, is never      *)
(* scored: there is no second fetch, no mark-read, no download and no      *)
(* classifier call, and the handler returns from the filter step both      *)
(* when the deletion succeeded and when the capability check refused it.   *)
(***************************************************************************)
\* The message fails the filter under the default allow-lists.
FailsFilter ==
    \/ evt.msgtype \notin {"m.text", "m.image"}
    \/ evt.msgtype = "m.image" /\ evt.mimetype = "image/bmp"

\* The first fetch has returned and found the sender not privileged.
UnprivilegedAtFirstFetch ==
    /\ fetches >= 1
    /\ evt.sender \notin admins
    /\ evt.sender # mxid
    /\ level1 < uncensor_pl

\* C13: such a message is never scored, and the handler returns from the
\* filter step once the deletion succeeded or the check refused it.
C13_FilteredNeverScored ==
    (UnprivilegedAtFirstFetch /\ enable_msgtype_filter /\ FailsFilter) =>
        /\ fetches = 1
        /\ marked_read = 0
        /\ analyze_calls = 0
        /\ downloads = 0
        /\ http_calls = 0
        /\ score_redacts = 0
        /\ pc \in {"perm_member", "perm_levels", "perm_respond",
                    "filter_redact", "done", "raised"}
        /\ (checks # <<>> /\ ~ checks[1]) => pc = "done"
        /\ (filter_redacts = 1 /\ pc # "raised") => pc = "done"

\* The filter step has deleted a video of an unprivileged sender and the
\* handler has returned.
C13_Witness ==
    /\ UnprivilegedAtFirstFetch
    /\ enable_msgtype_filter
    /\ evt.msgtype = "m.video"
    /\ moderate_files
    /\ filter_redacts = 1
    /\ pc = "done"
    /\ marked_read = 0

(***************************************************************************)
(* C14  One score call makes at most three classifier calls and always     *)
(* terminates: every round that is followed by another one advances the    *)
(* round counter, which stays below three.  When three successive answers  *)
(* with a success status were each unparseable with no refusal phrase,     *)
(* exactly three calls were made and score returned null.  After an        *)
(* answer that parsed, that held a refusal phrase, or that had a failure   *)
(* status, no further call is made.                                        *)
(***************************************************************************)
\* The last answer is one that ends the call: a status the code does not
\* take for a success, a parse success or a refusal hit.
C14_LastAnswerEndsCall ==
    LET n == Len(responses) IN
    /\ n >= 1
    /\ \/ responses[n].status # 200
       \/ responses[n].content \in
             JsonTexts \cup {JsonQuotingRefusal} \cup RefusalTexts

C14_CallBound ==
    LET n == Len(responses) IN
    /\ http_calls <= 3
    /\ n <= http_calls
    /\ ( /\ n = 3
         /\ \A i \in 1..3 : /\ responses[i].status = 200
                             /\ responses[i].content \in MalformedTexts )
       => /\ http_calls = 3
          /\ score = NoneScore
          /\ pc = "done"
    /\ C14_LastAnswerEndsCall => (pc # "post" /\ http_calls = n)

\* A round that is followed by another round advances the round counter.
C14_RoundAdvances ==
    (pc = "post" /\ pc' = "post") =>
        /\ attempt' = attempt + 1
        /\ attempt' < 3
        /\ http_calls' = http_calls + 1

C15_FilterDenialIsSilent ==
    (ctx = "filter" /\ checks # <<>> /\ ~ checks[1]) =>
        /\ Len(checks) = 1
        /\ filter_redacts = 0
        /\ score_redacts = 0
        /\ replies = <<>>
        /\ responds = 0

(***************************************************************************)
(* C16  A failed deletion is best-effort: when a deletion call fails       *)
(* after the redact capability was confirmed, in the enforcement step or   *)
(* in the filter step, the handler completes without raising, makes no     *)
(* second deletion call and sends nothing to the room.                     *)
(***************************************************************************)
\* The deletion call of this event has failed: caught at line 359 in the
\* enforcement step, raised by line 317 in the filter step.
DeletionFailed ==
    \/ "redact" \in caught
    \/ exc = [type |-> "TransportError", line |-> 317]

\* C16: after a failed deletion call the handler is done without raising,
\* has made that one deletion call only and has sent nothing to the room.
C16_FailedDeletionIsBestEffort ==
    DeletionFailed =>
        /\ pc = "done"
        /\ filter_redacts + score_redacts = 1
        /\ replies = <<>>
        /\ responds = 0

\* The enforcement step alone treats a failed deletion as claimed.
EnforcementDeletionIsBestEffort ==
    "redact" \in caught =>
        /\ pc = "done"
        /\ filter_redacts + score_redacts = 1
        /\ replies = <<>>
        /\ responds = 0

(***************************************************************************)
(* C17  The privilege-sensitive configuration is read live: an event       *)
(* handled after a reload is decided with the reloaded admin set,          *)
(* uncensor threshold and classifier threshold.  A sender who is           *)
(* privileged under the live values is neither filtered nor scored, and a  *)
(* score below the live threshold is not enforced.                         *)
(***************************************************************************)
\* The sender is privileged under the configuration as it is now.
PrivilegedLive(level) ==
    \/ evt.sender \in config.admins
    \/ level >= config.uncensor_pl
    \/ evt.sender = mxid

\* C17: the bypass, the scoring eligibility and the enforcement of an event
\* follow the configuration as it is when the event is handled.
C17_DecidedWithLiveConfig ==
    /\ (fetches >= 1 /\ PrivilegedLive(level1)) =>
            (ctx # "filter" /\ filter_redacts = 0)
    /\ (fetches = 2 /\ PrivilegedLive(user_level)) =>
            (ctx # "score" /\ marked_read = 0 /\ analyze_calls = 0)
    /\ (Ended /\ score.type = "dict"
              /\ score.value.max < config.ai_mod_threshold) =>
            (score_redacts = 0 /\ replies = <<>>)

(***************************************************************************)
(* C18  With file moderation disabled, a media message that passes or      *)
(* bypasses the filter step is ignored: after the first fetch the handler  *)
(* returns with no second fetch, no mark-read, no capability check, no     *)
(* download, no classifier call, no deletion and no reply.                 *)
(***************************************************************************)
\* The first fetch has returned and the filter step lets the message on.
PassedOrBypassedFilter ==
    /\ fetches >= 1
    /\ ~ (UnprivilegedAtFirstFetch /\ enable_msgtype_filter /\ FailsFilter)

\* C18: such a media message ends the handler after the first fetch, with
\* no call of any kind made for it.
C18_FilesIgnoredWhenDisabled ==
    ( /\ evt.msgtype \in {"m.image", "m.video", "m.file"}
      /\ ~ moderate_files
      /\ PassedOrBypassedFilter )
    => /\ pc = "done"
       /\ fetches = 1
       /\ marked_read = 0
       /\ checks = <<>>
       /\ downloads = 0
       /\ analyze_calls = 0
       /\ http_calls = 0
       /\ filter_redacts = 0
       /\ score_redacts = 0
       /\ replies = <<>>
       /\ responds = 0

\* An unprivileged sender's PNG image has passed the enabled filter and
\* has been ignored.
C18_Witness ==
    /\ evt.msgtype = "m.image"
    /\ evt.mimetype = "image/png"
    /\ ~ moderate_files
    /\ enable_msgtype_filter
    /\ UnprivilegedAtFirstFetch
    /\ pc = "done"
    /\ fetches = 1

(***************************************************************************)
(* C19  Every deletion call is preceded, within the same event, by a       *)
(* capability check that returned ok = true for redact, the moderator's    *)
(* level being at least the redact level when it was checked.  No          *)
(* deletion call is made for an event whose check returned ok = false or   *)
(* failed, and at most one deletion call is made per event.                *)
(***************************************************************************)
\* A deletion call of this event has been made or is about to be made.
DeletionCalled ==
    \/ filter_redacts + score_redacts >= 1
    \/ pc \in {"filter_redact", "redact"}

\* C19: at most one deletion call per event, made only after the one check
\* of the event confirmed redact, never after a check that refused.
C19_DeletionNeedsConfirmedCapability ==
    /\ filter_redacts + score_redacts <= 1
    /\ DeletionCalled =>
          /\ checks = <<TRUE>>
          /\ "redact" \in DOMAIN perm_details
          /\ perm_details["redact"].has_permission
          /\ perm_details["redact"].bot_level
                >= perm_details["redact"].required_level
    /\ (\E i \in 1..Len(checks) : ~ checks[i]) =>
          /\ filter_redacts + score_redacts = 0
          /\ pc \notin {"filter_redact", "redact"}

\* The enforcement step has deleted a flagged message after a check that
\* confirmed the redact capability.
C19_Witness ==
    /\ score_redacts = 1
    /\ ctx = "score"
    /\ checks = <<TRUE>>
    /\ score.type = "dict"
    /\ pc = "done"

(***************************************************************************)
(* C20  With filtering enabled, a message whose kind or MIME type is not   *)
(* allowed and the classifier, when the room changes the sender's level    *)
(* between the first fetch (filter bypass) and the second (scoring         *)
(* eligibility).                                                           *)
(***************************************************************************)
\* The message has been handed to ai_analyze or posted to the classifier.
SubmittedToClassifier ==
    \/ analyze_calls >= 1
    \/ http_calls >= 1
    \/ pc \in {"download", "post"}

\* C20, as claimed: such a message is never submitted to the classifier,
\* whatever the two fetches returned.
C20_DisallowedNeverClassified ==
    (enable_msgtype_filter /\ fetches >= 1 /\ FailsFilter) =>
        ~ SubmittedToClassifier

\* C20, amended: such a message is never submitted to the classifier when
\* its sender was not privileged at the first fetch; it is submitted only
\* when the sender bypassed the filter by its level at the first fetch and
\* the second fetch found that level below the uncensor threshold.
C20_ClassifiedOnlyAfterDemotion ==
    ( /\ enable_msgtype_filter
      /\ fetches >= 1
      /\ FailsFilter
      /\ SubmittedToClassifier )
    => /\ fetches = 2
       /\ evt.sender \notin admins
       /\ evt.sender # mxid
       /\ level1 >= uncensor_pl
       /\ user_level < uncensor_pl
       /\ filter_redacts = 0
       /\ evt.msgtype \in {"m.image", "m.video", "m.file"} => moderate_files

\* A sender at level 50 bypassed the filter with a notice, was at level 0
\* at the second fetch, and the notice was posted to the classifier.
C20_Witness ==
    /\ enable_msgtype_filter
    /\ evt.msgtype = "m.notice"
    /\ level1 = 50
    /\ uncensor_pl = 50
    /\ fetches = 2
    /\ user_level = 0
    /\ http_calls >= 1
=============================================================================
